---- MODULE Spec2Model ----
(***************************************************************************)
(* Model of the SSD1306lite driver (ssd1306lite.cpp / ssd1306lite.h).      *)
(*                                                                         *)
(* Three layers, as in the source:                                         *)
(*   - the public operations, which call the private framing methods;      *)
(*   - the framing methods (ssd1306CmdBegin, ssd1306DataPutByte, ...),     *)
(*     which call the link layer (i2cSendBegin / i2cSendByte / i2cSendEnd);*)
(*   - the link layer, which writes the two port bits SCL and SDA.         *)
(*                                                                         *)
(* Spec     : one action per public operation.  An operation is evaluated  *)
(*            to the trace of link-layer calls it makes (trace) and to the *)
(*            traffic those calls put on the link (link); call, trace and  *)
(*            link hold the last operation only and are cleared by         *)
(*            NewCapture before the next one.                              *)
(* SpecWire : the link layer statement by statement, one port write per    *)
(*            step, for one call of i2cSendByte.                           *)
(* SpecFrame: whole frames on the link, one port write per step.           *)
(* SpecSteps: one operation statement by statement, one loop test per      *)
(*            step, with the loop counters at their width.                 *)
(***************************************************************************)
EXTENDS Integers, Sequences, FiniteSets, TLC

VARIABLES
    fInvertData,  \* ssd1306lite.h:38  the only data member of the driver
    charSigned,   \* whether plain char is signed in this build
    scl, sda,     \* the port bits driving SCL and SDA (1 = high)
    call,         \* the public operation last called, with its arguments
    trace,        \* the calls that operation made, in program order
    link,         \* the START / BYTE / STOP traffic those calls produced
    wrest,        \* SpecWire, SpecFrame: the port writes still to be executed
    wlog,         \* SpecWire, SpecFrame: what a receiver on the lines has observed
    run           \* SpecSteps, SpecFrame: where the running operation is

vars == <<fInvertData, charSigned, scl, sda, call, trace, link,
          wrest, wlog, run>>

progVars == <<fInvertData, charSigned, scl, sda, call, trace, link>>
wireVars == <<wrest, wlog, run>>

----------------------------------------------------------------------------
(* Bounds of the model *)

MaxStrLen == 3     \* longest multi-character string passed to text / text2x
MaxPatLen == 3     \* longest pattern passed to fillAreaWithBytes

----------------------------------------------------------------------------
(* Program constants *)

NUM_ROWS == 8
NUM_COLUMNS == 128
SSD1306_ADDR == 120            \* 0x78
SSD1306_CTL_COMMAND == 0       \* 0x00
SSD1306_CTL_DATA == 64         \* 0x40
CMD_SET_COLUMN_LO == 0         \* 0x00
CMD_SET_COLUMN_HI == 16        \* 0x10
CMD_ADDRESS_MODE == 32         \* 0x20
CMD_SET_START_LINE == 64       \* 0x40
CMD_SET_CONTRAST == 129        \* 0x81
CMD_CHARGE_PUMP == 141         \* 0x8d
CMD_HORIZONTAL_REMAP == 161    \* 0xa1
CMD_RAM_ENABLE == 164          \* 0xa4
CMD_INVERT_OFF == 166          \* 0xa6
CMD_INVERT_ON == 167           \* 0xa7
CMD_MULTIPLEX_RATIO == 168     \* 0xa8
CMD_DISPLAY_OFF == 174         \* 0xae
CMD_DISPLAY_ON == 175          \* 0xaf
CMD_SET_ROW == 176             \* 0xb0
CMD_VERTICAL_REMAP == 200      \* 0xc8
CMD_DISPLAY_OFFSET == 211      \* 0xD3
CMD_DIVIDE_AND_FREQ == 213     \* 0xD5
CMD_PRE_CHARGE_PERIOD == 217   \* 0xD9
CMD_COM_PIN_CONFIG == 218      \* 0xDA
CMD_VCOMH_LEVEL == 219         \* 0xDB

initCommands ==
    << CMD_DISPLAY_OFF,
       CMD_MULTIPLEX_RATIO, 63,
       CMD_DISPLAY_OFFSET, 0,
       CMD_SET_START_LINE,
       CMD_HORIZONTAL_REMAP,
       CMD_VERTICAL_REMAP,
       CMD_ADDRESS_MODE, 2,
       CMD_SET_CONTRAST, 127,
       CMD_INVERT_OFF,
       CMD_RAM_ENABLE,
       CMD_DIVIDE_AND_FREQ, 240,
       CMD_PRE_CHARGE_PERIOD, 34,
       CMD_COM_PIN_CONFIG, 18,
       CMD_VCOMH_LEVEL, 32,
       CMD_CHARGE_PUMP, 20,
       CMD_DISPLAY_ON >>

----------------------------------------------------------------------------
(* 8-bit arithmetic *)

UINT8 == 0..255

\* conversion of an int to uint8_t
ToUint8(n) == n % 256

Bit(x, i) == (x \div (2^i)) % 2

RECURSIVE OrBits(_, _, _)
OrBits(a, b, i) ==
    IF i > 7 THEN 0
    ELSE (IF Bit(a, i) = 1 \/ Bit(b, i) = 1 THEN 2^i ELSE 0) + OrBits(a, b, i + 1)

\* a | b on 8-bit operands
BitOr(a, b) == OrBits(a, b, 0)

RECURSIVE AndBits(_, _, _)
AndBits(a, b, i) ==
    IF i > 7 THEN 0
    ELSE (IF Bit(a, i) = 1 /\ Bit(b, i) = 1 THEN 2^i ELSE 0) + AndBits(a, b, i + 1)

\* a & b on 8-bit operands
BitAnd(a, b) == AndBits(a, b, 0)

\* a >> n
Shr(a, n) == a \div (2^n)

\* ~b of a uint8_t promoted to int, converted back to uint8_t by the call
Not8(b) == ToUint8((0 - b) - 1)

----------------------------------------------------------------------------
(* Loops.  A for-loop over a uint8_t counter runs while its condition      *)
(* holds of the successive counter values start, start+1, ... (mod 256);   *)
(* its number of iterations is the first n for which the condition fails   *)
(* of the counter value (start + n) mod 256.                               *)

\* iterations of   for (uint8_t col = 0; col < NUM_COLUMNS; col++)
fillScreenColumns ==
    LET Cond(col) == col < NUM_COLUMNS
    IN  CHOOSE n \in 0..256 :
            /\ ~Cond(ToUint8(n))
            /\ \A j \in 0..(n - 1) : Cond(ToUint8(j))

\* variant: the inner loop stops one column before the edge of the screen
areaColumns_stopsShort(startColumn, columns) ==
    LET Cond(col) == (col < (startColumn + columns)) /\ (col < NUM_COLUMNS - 1)
    IN  CHOOSE n \in 0..256 : /\ ~Cond(ToUint8(startColumn + n))
                              /\ \A j \in 0..(n - 1) : Cond(ToUint8(startColumn + j))

\* iterations of   for (uint8_t col = startColumn;
\*                      ((col < (startColumn + columns)) && (col < NUM_COLUMNS)); col++)
areaColumns(startColumn, columns) ==
    LET Cond(col) == (col < (startColumn + columns)) /\ (col < NUM_COLUMNS)
    IN  CHOOSE n \in 0..256 :
            /\ ~Cond(ToUint8(startColumn + n))
            /\ \A j \in 0..(n - 1) : Cond(ToUint8(startColumn + j))

----------------------------------------------------------------------------
(* Link layer: the port writes of each routine, in program order.          *)

SCL_high == <<"SCL", 1>>
SCL_low  == <<"SCL", 0>>
SDA_high == <<"SDA", 1>>
SDA_low  == <<"SDA", 0>>

i2cSendBegin == << SCL_high, SDA_high, SDA_low, SCL_low >>

\* variant: SDA is pulled low only after SCL has been raised
i2cSendEnd_dataLate == << SCL_low, SCL_high, SDA_low, SDA_high >>

i2cSendEnd == << SCL_low, SDA_low, SCL_high, SDA_high >>

\* the body of the for-loop of i2cSendByte, from the given mask on
RECURSIVE i2cSendBits(_, _)
i2cSendBits(b, mask) ==
    IF mask = 0 THEN <<>>
    ELSE << (IF BitAnd(b, mask) # 0 THEN SDA_high ELSE SDA_low),
            SCL_high, SCL_low >>
         \o i2cSendBits(b, Shr(mask, 1))

\* variant: the acknowledge slot is not clocked
i2cSendByte_noAck(b) == i2cSendBits(b, 128)

i2cSendByte(b) == i2cSendBits(b, 128) \o << SDA_high, SCL_high, SCL_low >>

----------------------------------------------------------------------------
(* Framing methods.  Each is the sequence of calls it makes: a call of     *)
(* i2cSendBegin, of i2cSendByte(b), of ssd1306DataPutByte(b), or of        *)
(* i2cSendEnd.                                                             *)

CallBegin   == <<"i2cSendBegin", 0>>
CallByte(b) == <<"i2cSendByte", ToUint8(b)>>
CallPut(b)  == <<"ssd1306DataPutByte", ToUint8(b)>>
CallEnd     == <<"i2cSendEnd", 0>>
\* not a call: records the glyph index c computed by text / text2x
NoteGlyph(c) == <<"glyph", c>>

ssd1306DataBegin == << CallBegin, CallByte(SSD1306_ADDR), CallByte(SSD1306_CTL_DATA) >>

\* variant: the data frame is never closed
ssd1306DataEnd_noStop == <<>>

ssd1306DataEnd == << CallEnd >>

\* variant: the data-invert flag is ignored
ssd1306DataPutByte_plain(b) == b

\* the byte ssd1306DataPutByte(b) passes to i2cSendByte
ssd1306DataPutByte(b) == IF fInvertData THEN Not8(b) ELSE b

ssd1306CmdBegin == << CallBegin, CallByte(SSD1306_ADDR), CallByte(SSD1306_CTL_COMMAND) >>

ssd1306CmdEnd == << CallEnd >>

ssd1306SendCommand(b) == ssd1306CmdBegin \o << CallByte(b) >> \o ssd1306CmdEnd

----------------------------------------------------------------------------
(* What a trace of calls does on the link and to the two port bits.        *)

START == <<"START", 0>>
STOP  == <<"STOP", 0>>
BYTE(b) == <<"BYTE", b>>

IsCall(item) == item[1] \in {"i2cSendBegin", "i2cSendByte", "ssd1306DataPutByte", "i2cSendEnd"}
IsPin(item)  == item[1] \in {"SCL", "SDA"}

\* the link event of one call
LinkEvent(item) ==
    CASE item[1] = "i2cSendBegin"        -> START
      [] item[1] = "i2cSendByte"         -> BYTE(item[2])
      [] item[1] = "ssd1306DataPutByte"  -> BYTE(ssd1306DataPutByte(item[2]))
      [] item[1] = "i2cSendEnd"          -> STOP

\* the link traffic of a trace
OnLink(tr) ==
    LET calls == SelectSeq(tr, IsCall)
    IN  [k \in 1..Len(calls) |-> LinkEvent(calls[k])]

\* the port writes of one item of a trace
PinsOf(item) ==
    CASE item[1] = "i2cSendBegin"        -> i2cSendBegin
      [] item[1] = "i2cSendByte"         -> i2cSendByte(item[2])
      [] item[1] = "ssd1306DataPutByte"  -> i2cSendByte(ssd1306DataPutByte(item[2]))
      [] item[1] = "i2cSendEnd"          -> i2cSendEnd
      [] IsPin(item)                     -> << item >>
      [] OTHER                           -> <<>>

\* the level of a port bit after a sequence of writes
RECURSIVE ApplyPins(_, _, _)
ApplyPins(line, level, pins) ==
    IF pins = <<>> THEN level
    ELSE ApplyPins(line, (IF Head(pins)[1] = line THEN Head(pins)[2] ELSE level), Tail(pins))

WritesLine(item, line) == \E k \in 1..Len(PinsOf(item)) : PinsOf(item)[k][1] = line

\* the last item of tr[1..k] that writes the port bit (0 if none)
RECURSIVE LastWriter(_, _, _)
LastWriter(tr, k, line) ==
    IF k = 0 THEN 0
    ELSE IF WritesLine(tr[k], line) THEN k
    ELSE LastWriter(tr, k - 1, line)

\* the level of a port bit after a trace: that of the last write to it
LevelAfter(line, level, tr) ==
    LET last == LastWriter(tr, Len(tr), line)
    IN  IF last = 0 THEN level ELSE ApplyPins(line, level, PinsOf(tr[last]))

----------------------------------------------------------------------------
(* Read-only tables in program memory.  The font tables are supplied by    *)
(* font6x8.h and font8x16.h: 6 (resp. 16) bytes per glyph, one glyph per   *)
(* printable character from ' ' on.                                        *)

FONT6X8_GLYPHS == 92       \* ' ' .. '{'
FONT8X16_GLYPHS == 94      \* ' ' .. '}'

\* the table contents (opaque data)
font6x8Data(ix) == (ix * 7 + 1) % 256
font8x16Data(ix) == (ix * 11 + 3) % 256

\* pgm_read_byte(&font6x8[ix]); a read past the end of the table yields
\* whatever the build placed there (g)
font6x8(ix, g) == IF ix < FONT6X8_GLYPHS * 6 THEN font6x8Data(ix) ELSE g

font8x16(ix, g) == IF ix < FONT8X16_GLYPHS * 16 THEN font8x16Data(ix) ELSE g

\* pgm_read_byte(&image[ix]) for the caller's image img
imageData(img, ix) == (ix * (2 * img - 1) + img * (ix \div 128)) % 256

----------------------------------------------------------------------------
(* Public operations: the trace of calls each makes.                       *)

\* variant: every table byte is sent as a command frame of its own
initialize_framePerByte ==
    LET each == [ix \in 1..Len(initCommands) |-> ssd1306SendCommand(initCommands[ix])]
        n == Len(each[1])
    IN  << SCL_high, SDA_high >>
        \o [k \in 1..(n * Len(initCommands)) |-> each[((k - 1) \div n) + 1][((k - 1) % n) + 1]]

initialize ==
    << SCL_high, SDA_high >>
    \o ssd1306CmdBegin
    \o [ix \in 1..Len(initCommands) |-> CallByte(initCommands[ix])]
    \o ssd1306CmdEnd

\* variant: the row bound is off by one
setPosition_rowOffByOne(row, column) ==
    IF (row > NUM_ROWS) \/ (column >= NUM_COLUMNS) THEN <<>>
    ELSE ssd1306CmdBegin
         \o << CallByte(BitOr(CMD_SET_ROW, row)),
               CallByte(BitOr(CMD_SET_COLUMN_HI, BitAnd(Shr(column, 4), 15))),
               CallByte(BitOr(CMD_SET_COLUMN_LO, BitAnd(column, 15))) >>
         \o ssd1306CmdEnd

\* variant: the two column nibbles are exchanged
setPosition_nibblesSwapped(row, column) ==
    IF (row >= NUM_ROWS) \/ (column >= NUM_COLUMNS) THEN <<>>
    ELSE ssd1306CmdBegin
         \o << CallByte(BitOr(CMD_SET_ROW, row)),
               CallByte(BitOr(CMD_SET_COLUMN_HI, BitAnd(column, 15))),
               CallByte(BitOr(CMD_SET_COLUMN_LO, BitAnd(Shr(column, 4), 15))) >>
         \o ssd1306CmdEnd

setPosition(row, column) ==
    IF (row >= NUM_ROWS) \/ (column >= NUM_COLUMNS) THEN <<>>
    ELSE ssd1306CmdBegin
         \o << CallByte(BitOr(CMD_SET_ROW, row)),
               CallByte(BitOr(CMD_SET_COLUMN_HI, BitAnd(Shr(column, 4), 15))),
               CallByte(BitOr(CMD_SET_COLUMN_LO, BitAnd(column, 15))) >>
         \o ssd1306CmdEnd

\* the value of *s, a plain char holding the byte ch
CharValue(ch) == IF charSigned /\ ch >= 128 THEN ch - 256 ELSE ch

\* variant: the glyph index is off by one
textGlyph_offByOne(ch) == IF CharValue(ch) > 123 THEN 0 ELSE ToUint8(CharValue(ch) - 31)

\* uint8_t c = (*s > '{') ? 0 : *s - 32;
textGlyph(ch) == IF CharValue(ch) > 123 THEN 0 ELSE ToUint8(CharValue(ch) - 32)

\* uint8_t c = *s > '}' ? 0 : *s - 32;
text2xGlyph(ch) == IF CharValue(ch) > 125 THEN 0 ELSE ToUint8(CharValue(ch) - 32)

\* variant: the loop runs while the glyph merely starts on the screen
RECURSIVE textLoop_noClip(_, _, _)
textLoop_noClip(s, col, g) ==
    IF s # <<>> /\ col < NUM_COLUMNS
    THEN LET c == textGlyph(Head(s))
         IN  << NoteGlyph(c) >>
             \o [ix \in 1..6 |-> CallPut(font6x8(c * 6 + (ix - 1), g))]
             \o textLoop_noClip(Tail(s), ToUint8(col + 6), g)
    ELSE <<>>

\* the for-loop of text, from character s[1] at column col
RECURSIVE textLoop(_, _, _)
textLoop(s, col, g) ==
    IF s # <<>> /\ col <= NUM_COLUMNS - 6
    THEN LET c == textGlyph(Head(s))
         IN  << NoteGlyph(c) >>
             \o [ix \in 1..6 |-> CallPut(font6x8(c * 6 + (ix - 1), g))]
             \o textLoop(Tail(s), ToUint8(col + 6), g)
    ELSE <<>>

\* variant: the glyphs are sent at the cursor, without a position command
text_atCursor(row, column, str, g) ==
    IF row > NUM_ROWS - 1 THEN <<>>
    ELSE ssd1306DataBegin
         \o textLoop(str, column, g)
         \o ssd1306DataEnd

text(row, column, str, g) ==
    IF row > NUM_ROWS - 1 THEN <<>>
    ELSE setPosition(row, column)
         \o ssd1306DataBegin
         \o textLoop(str, column, g)
         \o ssd1306DataEnd

\* variant: the loop runs while the glyph merely starts on the screen
RECURSIVE text2xLoop_noClip(_, _, _, _)
text2xLoop_noClip(s, col, half, g) ==
    IF s # <<>> /\ col < NUM_COLUMNS
    THEN LET c == text2xGlyph(Head(s))
         IN  << NoteGlyph(c) >>
             \o [ix \in 1..8 |-> CallPut(font8x16(c * 16 + half + (ix - 1), g))]
             \o text2xLoop_noClip(Tail(s), ToUint8(col + 8), half, g)
    ELSE <<>>

\* either for-loop of text2x; half = 0 for the upper row, 8 for the lower
RECURSIVE text2xLoop(_, _, _, _)
text2xLoop(s, col, half, g) ==
    IF s # <<>> /\ col <= NUM_COLUMNS - 8
    THEN LET c == text2xGlyph(Head(s))
         IN  << NoteGlyph(c) >>
             \o [ix \in 1..8 |-> CallPut(font8x16(c * 16 + half + (ix - 1), g))]
             \o text2xLoop(Tail(s), ToUint8(col + 8), half, g)
    ELSE <<>>

\* variant: the second pass is positioned on the row of the first
text2x_lowerOnSameRow(row, column, str, g) ==
    IF row > NUM_ROWS - 2 THEN <<>>
    ELSE setPosition(row, column)
         \o ssd1306DataBegin
         \o text2xLoop(str, column, 0, g)
         \o ssd1306DataEnd
         \o setPosition(row, column)
         \o ssd1306DataBegin
         \o text2xLoop(str, column, 8, g)
         \o ssd1306DataEnd

text2x(row, column, str, g) ==
    IF row > NUM_ROWS - 2 THEN <<>>
    ELSE setPosition(row, column)
         \o ssd1306DataBegin
         \o text2xLoop(str, column, 0, g)
         \o ssd1306DataEnd
         \o setPosition(ToUint8(row + 1), column)
         \o ssd1306DataBegin
         \o text2xLoop(str, column, 8, g)
         \o ssd1306DataEnd

\* the outer for-loop of fillScreen, from row on
RECURSIVE fillScreenRows(_, _)
fillScreenRows(row, fillByte) ==
    IF row < NUM_ROWS
    THEN setPosition(row, 0)
         \o ssd1306DataBegin
         \o [col \in 1..fillScreenColumns |-> CallPut(fillByte)]
         \o ssd1306DataEnd
         \o fillScreenRows(ToUint8(row + 1), fillByte)
    ELSE <<>>

\* variant: the fill starts at the second row
fillScreen_fromRowOne(fillByte) == fillScreenRows(1, fillByte)

fillScreen(fillByte) == fillScreenRows(0, fillByte)

\* variant: the outer loop runs to the last row of the screen
RECURSIVE fillAreaWithByteRows_toBottom(_, _, _, _, _, _)
fillAreaWithByteRows_toBottom(row, startRow, startColumn, rows, columns, b) ==
    IF row < NUM_ROWS
    THEN setPosition(row, startColumn)
         \o ssd1306DataBegin
         \o [col \in 1..areaColumns(startColumn, columns) |-> CallPut(b)]
         \o ssd1306DataEnd
         \o fillAreaWithByteRows_toBottom(ToUint8(row + 1), startRow, startColumn,
                                          rows, columns, b)
    ELSE <<>>

\* the outer for-loop of fillAreaWithByte, from row on
RECURSIVE fillAreaWithByteRows(_, _, _, _, _, _)
fillAreaWithByteRows(row, startRow, startColumn, rows, columns, b) ==
    IF (row < (startRow + rows)) /\ (row < NUM_ROWS)
    THEN setPosition(row, startColumn)
         \o ssd1306DataBegin
         \o [col \in 1..areaColumns(startColumn, columns) |-> CallPut(b)]
         \o ssd1306DataEnd
         \o fillAreaWithByteRows(ToUint8(row + 1), startRow, startColumn, rows, columns, b)
    ELSE <<>>

fillAreaWithByte(startRow, startColumn, rows, columns, b) ==
    fillAreaWithByteRows(startRow, startRow, startColumn, rows, columns, b)

\* n consecutive iterations of the inner for-loop of fillAreaWithBytes,
\* entered with index ix:
\*     ssd1306DataPutByte(pattern[ix++]);  if (ix >= patternSize) ix = 0;
\* Yields the calls made and the value of ix afterwards.  (A run of n
\* iterations is a run of n/2 followed by a run of the rest.)
RECURSIVE fillAreaWithBytesCols(_, _, _, _)
fillAreaWithBytesCols(n, ix, pattern, patternSize) ==
    IF n = 0 THEN [out |-> <<>>, ix |-> ix]
    ELSE IF n = 1
    THEN [out |-> << CallPut(pattern[ix + 1]) >>,
          ix  |-> IF ix + 1 >= patternSize THEN 0 ELSE ix + 1]
    ELSE LET a == fillAreaWithBytesCols(n \div 2, ix, pattern, patternSize)
             b == fillAreaWithBytesCols(n - (n \div 2), a.ix, pattern, patternSize)
         IN  [out |-> a.out \o b.out, ix |-> b.ix]

\* variant: the pattern index carries on from the row above
RECURSIVE fillAreaWithBytesRows_indexCarried(_, _, _, _, _, _, _)
fillAreaWithBytesRows_indexCarried(row, startRow, startColumn, rows, columns, pattern, patternSize) ==
    IF (row < (startRow + rows)) /\ (row < NUM_ROWS)
    THEN setPosition(row, startColumn)
         \o ssd1306DataBegin
         \o fillAreaWithBytesCols(areaColumns(startColumn, columns),
                ((row - startRow) * areaColumns(startColumn, columns)) % patternSize,
                pattern, patternSize).out
         \o ssd1306DataEnd
         \o fillAreaWithBytesRows_indexCarried(ToUint8(row + 1), startRow, startColumn,
                                               rows, columns, pattern, patternSize)
    ELSE <<>>

\* variant: the inner loop runs for the requested width, unclipped
RECURSIVE fillAreaWithBytesRows_noColumnClip(_, _, _, _, _, _, _)
fillAreaWithBytesRows_noColumnClip(row, startRow, startColumn, rows, columns, pattern, patternSize) ==
    IF (row < (startRow + rows)) /\ (row < NUM_ROWS)
    THEN setPosition(row, startColumn)
         \o ssd1306DataBegin
         \o fillAreaWithBytesCols(columns, 0, pattern, patternSize).out
         \o ssd1306DataEnd
         \o fillAreaWithBytesRows_noColumnClip(ToUint8(row + 1), startRow, startColumn,
                                               rows, columns, pattern, patternSize)
    ELSE <<>>

\* the outer for-loop of fillAreaWithBytes, from row on
RECURSIVE fillAreaWithBytesRows(_, _, _, _, _, _, _)
fillAreaWithBytesRows(row, startRow, startColumn, rows, columns, pattern, patternSize) ==
    IF (row < (startRow + rows)) /\ (row < NUM_ROWS)
    THEN setPosition(row, startColumn)
         \o ssd1306DataBegin
         \o fillAreaWithBytesCols(areaColumns(startColumn, columns),
                                  0, pattern, patternSize).out
         \o ssd1306DataEnd
         \o fillAreaWithBytesRows(ToUint8(row + 1), startRow, startColumn, rows, columns,
                                  pattern, patternSize)
    ELSE <<>>

fillAreaWithBytes(startRow, startColumn, rows, columns, pattern, patternSize) ==
    fillAreaWithBytesRows(startRow, startRow, startColumn, rows, columns, pattern, patternSize)

\* variant: the row's source index advances by the clipped width
RECURSIVE drawImageRows_clippedStride(_, _, _, _, _, _)
drawImageRows_clippedStride(row, startRow, startColumn, imageRows, imageColumns, image) ==
    IF (row < (startRow + imageRows)) /\ (row < NUM_ROWS)
    THEN LET ix == (row - startRow) * areaColumns(startColumn, imageColumns)
         IN  setPosition(row, startColumn)
             \o ssd1306DataBegin
             \o [col \in 1..areaColumns(startColumn, imageColumns)
                   |-> CallPut(imageData(image, ix + (col - 1)))]
             \o ssd1306DataEnd
             \o drawImageRows_clippedStride(ToUint8(row + 1), startRow, startColumn,
                                            imageRows, imageColumns, image)
    ELSE <<>>

\* the outer for-loop of drawImage, from row on
RECURSIVE drawImageRows(_, _, _, _, _, _)
drawImageRows(row, startRow, startColumn, imageRows, imageColumns, image) ==
    IF (row < (startRow + imageRows)) /\ (row < NUM_ROWS)
    THEN LET ix == (row - startRow) * imageColumns
         IN  setPosition(row, startColumn)
             \o ssd1306DataBegin
             \o [col \in 1..areaColumns(startColumn, imageColumns)
                   |-> CallPut(imageData(image, ix + (col - 1)))]
             \o ssd1306DataEnd
             \o drawImageRows(ToUint8(row + 1), startRow, startColumn, imageRows,
                              imageColumns, image)
    ELSE <<>>

drawImage(startRow, startColumn, imageRows, imageColumns, image) ==
    drawImageRows(startRow, startRow, startColumn, imageRows, imageColumns, image)

\* variant: opcode and level are sent as two commands of their own
setContrast_frameEach(level) ==
    ssd1306SendCommand(CMD_SET_CONTRAST) \o ssd1306SendCommand(level)

setContrast(level) ==
    ssd1306CmdBegin \o << CallByte(CMD_SET_CONTRAST), CallByte(level) >> \o ssd1306CmdEnd

invertScreen(b) == ssd1306SendCommand(IF b THEN CMD_INVERT_ON ELSE CMD_INVERT_OFF)

sleep(b) == ssd1306SendCommand(IF b THEN CMD_DISPLAY_OFF ELSE CMD_DISPLAY_ON)

----------------------------------------------------------------------------
(* Inputs *)

\* rows, columns and sizes around the edges of the screen and of uint8_t
RowSamples == {0, 2, 6, 7, 8, 255}
TextColSamples == {0, 105, 111, 123, 128}
AreaRowSamples == {0, 6, 8, 250}
AreaColSamples == {0, 120, 128, 250}
RowsSamples == {0, 1, 3, 255}
ColumnsSamples == {0, 1, 10, 255}
ByteSamples == {0, 165}
\* the fill bytes passed to fillScreen
FillBytes == {0, 165, 255}

\* characters used in multi-character strings: 'H', 'i', LF
CharSamples == {72, 105, 10}

RECURSIVE StringsUpTo(_)
StringsUpTo(n) ==
    IF n = 0 THEN { <<>> }
    ELSE LET S == StringsUpTo(n - 1)
         IN  S \cup { Append(s, ch) : s \in {t \in S : Len(t) = n - 1}, ch \in CharSamples }

\* C strings (sequences of non-zero bytes) of several characters
Strings == StringsUpTo(MaxStrLen)

\* every C string of one character
OneCharStrings == { <<ch>> : ch \in 1..255 }

\* the arguments of text and text2x: <<row, column, str>>
TextInputs ==
    (RowSamples \X TextColSamples \X Strings)
    \cup ({0, 6} \X {0} \X OneCharStrings)
    \cup ({0, 6} \X {120, 122} \X StringsUpTo(2))

\* what a read past the end of a table may yield
GarbageBytes == {0, 90}

RECURSIVE PatternsUpTo(_)
PatternsUpTo(n) ==
    IF n = 0 THEN {}
    ELSE PatternsUpTo(n - 1)
         \cup { [k \in 1..n |-> (p1 + 16 * (k - 1)) % 256] : p1 \in {1, 255} }

\* the patterns passed to fillAreaWithBytes, with patternSize their length
Patterns == PatternsUpTo(MaxPatLen)

Images == {1, 2}

\* the arguments of setPosition: <<row, column>>
PositionInputs == (UINT8 \X {0, 5, 127, 128}) \cup ({0, 7, 8} \X UINT8)

\* <<startRow, startColumn, rows, columns>>
AreaInputs ==
    (AreaRowSamples \X AreaColSamples \X RowsSamples \X ColumnsSamples)
    \cup {<<0, 0, NUM_ROWS, NUM_COLUMNS>>}

----------------------------------------------------------------------------
(* The driver as a state machine *)

NoCall == [op |-> "none", args |-> <<>>]

\* what a receiver has seen of the two lines: rising and falling edges of
\* SCL, the level of SDA at each rising edge of SCL, and whether SDA ever
\* changed level while SCL was high
NothingSeen == [rise |-> 0, fall |-> 0, bits |-> <<>>, moved |-> FALSE]

\* the position and the locals of an operation about to execute its first
\* statement: pc names the statement; row and col are its uint8_t loop
\* counters; k is its other counter (the table index of initialize, the
\* string position of text, the unsigned ix of fillAreaWithBytes and
\* drawImage, the mask of i2cSendByte); half is the glyph half text2x is
\* drawing; open tells whether a frame is open
Entered == [pc |-> "entry", row |-> 0, col |-> 0, k |-> 0, half |-> 0, open |-> FALSE]

Init ==
    /\ fInvertData = FALSE
    /\ charSigned \in BOOLEAN
    /\ scl = 0
    /\ sda = 0
    /\ call = NoCall
    /\ trace = <<>>
    /\ link = <<>>
    /\ wrest = <<>>
    /\ wlog = NothingSeen
    /\ run = Entered

\* the capture is armed: no operation has run since it was last cleared
Armed == call.op = "none"

\* a public operation called with the given arguments runs to completion,
\* making the calls of tr
Run(op, args, tr) ==
    /\ call' = [op |-> op, args |-> args]
    /\ trace' = tr
    /\ link' = OnLink(tr)
    /\ scl' = LevelAfter("SCL", scl, tr)
    /\ sda' = LevelAfter("SDA", sda, tr)
    /\ UNCHANGED <<charSigned, wireVars>>

\* variant: initialize also clears the data-invert flag
Initialize_clearsFlag ==
    /\ Armed
    /\ Run("initialize", <<>>, initialize)
    /\ fInvertData' = FALSE

Initialize ==
    /\ Armed
    /\ Run("initialize", <<>>, initialize)
    /\ UNCHANGED fInvertData

SetPosition ==
    /\ Armed
    /\ \E rc \in PositionInputs :
        /\ Run("setPosition", rc, setPosition(rc[1], rc[2]))
        /\ UNCHANGED fInvertData

InvertData ==
    /\ Armed
    /\ \E b \in BOOLEAN :
        /\ Run("invertData", <<b>>, <<>>)
        /\ fInvertData' = b

Text ==
    /\ Armed
    /\ \E in \in TextInputs, g \in GarbageBytes :
        /\ Run("text", <<in[1], in[2], in[3], g>>, text(in[1], in[2], in[3], g))
        /\ UNCHANGED fInvertData

Text2x ==
    /\ Armed
    /\ \E in \in TextInputs, g \in GarbageBytes :
        /\ Run("text2x", <<in[1], in[2], in[3], g>>, text2x(in[1], in[2], in[3], g))
        /\ UNCHANGED fInvertData

FillScreen ==
    /\ Armed
    /\ \E fillByte \in FillBytes :
        /\ Run("fillScreen", <<fillByte>>, fillScreen(fillByte))
        /\ UNCHANGED fInvertData

FillAreaWithByte ==
    /\ Armed
    /\ \E in \in AreaInputs, b \in ByteSamples :
        /\ Run("fillAreaWithByte", <<in[1], in[2], in[3], in[4], b>>,
               fillAreaWithByte(in[1], in[2], in[3], in[4], b))
        /\ UNCHANGED fInvertData

FillAreaWithBytes ==
    /\ Armed
    /\ \E in \in AreaInputs, pattern \in Patterns :
        /\ Run("fillAreaWithBytes", <<in[1], in[2], in[3], in[4], pattern>>,
               fillAreaWithBytes(in[1], in[2], in[3], in[4], pattern, Len(pattern)))
        /\ UNCHANGED fInvertData

DrawImage ==
    /\ Armed
    /\ \E in \in AreaInputs, image \in Images :
        /\ Run("drawImage", <<in[1], in[2], in[3], in[4], image>>,
               drawImage(in[1], in[2], in[3], in[4], image))
        /\ UNCHANGED fInvertData

SetContrast ==
    /\ Armed
    /\ \E level \in UINT8 :
        /\ Run("setContrast", <<level>>, setContrast(level))
        /\ UNCHANGED fInvertData

InvertScreen ==
    /\ Armed
    /\ \E b \in BOOLEAN :
        /\ Run("invertScreen", <<b>>, invertScreen(b))
        /\ UNCHANGED fInvertData

Sleep ==
    /\ Armed
    /\ \E b \in BOOLEAN :
        /\ Run("sleep", <<b>>, sleep(b))
        /\ UNCHANGED fInvertData

\* the capture of the link is re-armed between two operations
NewCapture ==
    /\ ~Armed
    /\ call' = NoCall
    /\ trace' = <<>>
    /\ link' = <<>>
    /\ UNCHANGED <<fInvertData, charSigned, scl, sda, wireVars>>

Next ==
    \/ Initialize
    \/ SetPosition
    \/ InvertData
    \/ Text
    \/ Text2x
    \/ FillScreen
    \/ FillAreaWithByte
    \/ FillAreaWithBytes
    \/ DrawImage
    \/ SetContrast
    \/ InvertScreen
    \/ Sleep
    \/ NewCapture

Spec == Init /\ [][Next]_vars

----------------------------------------------------------------------------
(* The link layer, one port write per step (SpecWire).  i2cSendByte(b) is  *)
(* entered inside a frame, where SCL is low and SDA is as the previous     *)
(* link-layer call left it.                                                *)

InitWire ==
    /\ fInvertData = FALSE
    /\ charSigned = FALSE
    /\ trace = <<>>
    /\ link = <<>>
    /\ scl = 0
    /\ sda \in {0, 1}
    /\ \E b \in UINT8 :
        /\ call = [op |-> "i2cSendByte", args |-> <<b>>]
        /\ wrest = i2cSendByte(b)
    /\ wlog = NothingSeen
    /\ run = Entered

\* the next statement is SCL_high() or SCL_low()
WriteSCL ==
    /\ wrest # <<>>
    /\ Head(wrest)[1] = "SCL"
    /\ scl' = Head(wrest)[2]
    /\ wrest' = Tail(wrest)
    /\ wlog' = [wlog EXCEPT
                  !.rise = IF scl = 0 /\ scl' = 1 THEN @ + 1 ELSE @,
                  !.fall = IF scl = 1 /\ scl' = 0 THEN @ + 1 ELSE @,
                  !.bits = IF scl = 0 /\ scl' = 1 THEN Append(@, sda) ELSE @]
    /\ UNCHANGED <<fInvertData, charSigned, sda, call, trace, link, run>>

\* the next statement is SDA_high() or SDA_low()
WriteSDA ==
    /\ wrest # <<>>
    /\ Head(wrest)[1] = "SDA"
    /\ sda' = Head(wrest)[2]
    /\ wrest' = Tail(wrest)
    /\ wlog' = [wlog EXCEPT !.moved = @ \/ (scl = 1 /\ sda' # sda)]
    /\ UNCHANGED <<fInvertData, charSigned, scl, call, trace, link, run>>

NextWire == WriteSCL \/ WriteSDA

SpecWire == InitWire /\ [][NextWire]_vars

----------------------------------------------------------------------------
(* Whole frames on the two lines, one port write per step (SpecFrame).     *)
(* The link-layer calls are entered in the order the framing methods make  *)
(* them: i2cSendBegin, the address byte, a control byte, the payload       *)
(* bytes, i2cSendEnd; initialize may raise both lines between frames.      *)
(* wlog counts what a receiver sees since the last call that started a     *)
(* frame or raised the lines.                                              *)

\* payload bytes per frame that are stepped
MaxFrameBytes == 2

LineQuiet == [starts |-> 0, stops |-> 0, early |-> 0, clocks |-> 0]

InitFrame ==
    /\ fInvertData = FALSE
    /\ charSigned = FALSE
    /\ trace = <<>>
    /\ link = <<>>
    /\ scl = 0
    /\ sda = 0
    /\ call = NoCall
    /\ wrest = <<>>
    /\ wlog = LineQuiet
    /\ run = Entered

\* initialize, lines 122-123, called between frames
EnterIdle ==
    /\ wrest = <<>>
    /\ run.pc = "entry"
    /\ call' = [op |-> "initialize", args |-> <<>>]
    /\ wrest' = << SCL_high, SDA_high >>
    /\ wlog' = LineQuiet
    /\ UNCHANGED <<fInvertData, charSigned, scl, sda, trace, link, run>>

\* ssd1306CmdBegin or ssd1306DataBegin calls i2cSendBegin
EnterSendBegin ==
    /\ wrest = <<>>
    /\ run.pc = "entry"
    /\ call' = [op |-> "i2cSendBegin", args |-> <<>>]
    /\ wrest' = i2cSendBegin
    /\ wlog' = LineQuiet
    /\ run' = [run EXCEPT !.pc = "address", !.k = 0, !.open = TRUE]
    /\ UNCHANGED <<fInvertData, charSigned, scl, sda, trace, link>>

\* the bytes i2cSendByte is called with at each position of a frame
FrameBytes(pc) ==
    CASE pc = "address" -> {SSD1306_ADDR}
      [] pc = "control" -> {SSD1306_CTL_COMMAND, SSD1306_CTL_DATA}
      [] OTHER -> UINT8

\* the next call is i2cSendByte(b)
EnterSendByte ==
    /\ wrest = <<>>
    /\ run.pc \in {"address", "control", "payload"}
    /\ run.pc = "payload" => run.k < MaxFrameBytes
    /\ \E b \in FrameBytes(run.pc) :
        /\ call' = [op |-> "i2cSendByte", args |-> <<b>>]
        /\ wrest' = i2cSendByte(b)
    /\ run' = [run EXCEPT
                 !.pc = IF @ = "address" THEN "control" ELSE "payload",
                 !.k = IF run.pc = "payload" THEN @ + 1 ELSE @]
    /\ UNCHANGED <<fInvertData, charSigned, scl, sda, trace, link, wlog>>

\* ssd1306CmdEnd or ssd1306DataEnd calls i2cSendEnd
EnterSendEnd ==
    /\ wrest = <<>>
    /\ run.pc = "payload"
    /\ call' = [op |-> "i2cSendEnd", args |-> <<>>]
    /\ wrest' = i2cSendEnd
    /\ run' = [run EXCEPT !.pc = "entry", !.open = FALSE]
    /\ UNCHANGED <<fInvertData, charSigned, scl, sda, trace, link, wlog>>

\* the next statement is SCL_high() or SCL_low()
FrameSCL ==
    /\ wrest # <<>>
    /\ Head(wrest)[1] = "SCL"
    /\ scl' = Head(wrest)[2]
    /\ wrest' = Tail(wrest)
    /\ wlog' = [wlog EXCEPT
                  !.clocks = IF scl = 0 /\ scl' = 1 /\ wlog.starts > 0
                             THEN @ + 1 ELSE @]
    /\ UNCHANGED <<fInvertData, charSigned, sda, call, trace, link, run>>

\* the next statement is SDA_high() or SDA_low(); a change of SDA while SCL
\* is high is a START (falling) or a STOP (rising) to the receiver
FrameSDA ==
    /\ wrest # <<>>
    /\ Head(wrest)[1] = "SDA"
    /\ sda' = Head(wrest)[2]
    /\ wrest' = Tail(wrest)
    /\ wlog' = [wlog EXCEPT
                  !.starts = IF scl = 1 /\ sda = 1 /\ sda' = 0 THEN @ + 1 ELSE @,
                  !.stops = IF scl = 1 /\ sda = 0 /\ sda' = 1 /\ wlog.starts > 0
                            THEN @ + 1 ELSE @,
                  !.early = IF scl = 1 /\ sda = 0 /\ sda' = 1 /\ wlog.starts = 0
                            THEN @ + 1 ELSE @]
    /\ UNCHANGED <<fInvertData, charSigned, scl, call, trace, link, run>>

NextFrame ==
    \/ EnterIdle
    \/ EnterSendBegin
    \/ EnterSendByte
    \/ EnterSendEnd
    \/ FrameSCL
    \/ FrameSDA

SpecFrame == InitFrame /\ [][NextFrame]_vars

----------------------------------------------------------------------------
(* One operation statement by statement (SpecSteps).  Each step executes    *)
(* the operation up to and including its next loop test; the counters       *)
(* row, col, ix and mask are uint8_t as in the source.                      *)

\* whether a frame is open after the calls of tr
OpenAfter(open, tr) ==
    LET marks == SelectSeq(tr, LAMBDA item : item = CallBegin \/ item = CallEnd)
    IN  IF marks = <<>> THEN open ELSE marks[Len(marks)] = CallBegin

\* the loop tests of fillAreaWithByte, fillAreaWithBytes and drawImage
areaRowTest(row, startRow, rows) == (row < (startRow + rows)) /\ (row < NUM_ROWS)

\* variant: the column loop is bounded by the requested width alone
areaColTest_noEdge(col, startColumn, columns) == col < (startColumn + columns)

areaColTest(col, startColumn, columns) ==
    (col < (startColumn + columns)) /\ (col < NUM_COLUMNS)

\* strings, rectangles and calls that are stepped
LongString == [k \in 1..25 |-> 72]
StepStrings == {<<>>, <<72>>, <<72, 105, 10>>, LongString}
StepTextInputs == {0, 6, 7, 255} \X {0, 111, 123, 250} \X StepStrings
StepAreaInputs ==
    ({0, 6, 250} \X {0, 120, 250} \X {0, 3, 255} \X {0, 10, 255})
    \cup {<<0, 0, NUM_ROWS, NUM_COLUMNS>>}

StepImageInputs ==
    {<<0, 0, NUM_ROWS, NUM_COLUMNS>>, <<6, 120, 3, 10>>, <<0, 0, 3, 255>>,
     <<250, 250, 255, 255>>, <<0, 128, 1, 0>>, <<7, 0, 255, 1>>}

StepCalls ==
    {[op |-> "initialize", args |-> <<>>]}
    \cup {[op |-> "setPosition", args |-> rc] :
             rc \in {<<0, 0>>, <<7, 127>>, <<8, 0>>, <<0, 128>>}}
    \cup {[op |-> "invertData", args |-> <<b>>] : b \in BOOLEAN}
    \cup {[op |-> o, args |-> <<in[1], in[2], in[3], g>>] :
             o \in {"text", "text2x"}, in \in StepTextInputs, g \in {0}}
    \cup {[op |-> "fillScreen", args |-> <<b>>] : b \in {165}}
    \cup {[op |-> "fillAreaWithByte", args |-> <<a[1], a[2], a[3], a[4], 165>>] :
             a \in StepAreaInputs}
    \cup {[op |-> "fillAreaWithBytes", args |-> <<a[1], a[2], a[3], a[4], <<1, 17, 33>>>>] :
             a \in StepAreaInputs}
    \cup {[op |-> "drawImage", args |-> <<a[1], a[2], a[3], a[4], 1>>] :
             a \in StepImageInputs}
    \cup {[op |-> "setContrast", args |-> <<level>>] : level \in {0, 127, 255}}
    \cup {[op |-> o, args |-> <<b>>] : o \in {"invertScreen", "sleep"}, b \in BOOLEAN}
    \cup {[op |-> "i2cSendByte", args |-> <<b>>] : b \in {0, 165, 255}}

\* a public operation is called with the lines idle, initialize with the
\* lines at any level, i2cSendByte inside an open frame
InitSteps ==
    /\ fInvertData = FALSE
    /\ charSigned \in BOOLEAN
    /\ trace = <<>>
    /\ link = <<>>
    /\ wrest = <<>>
    /\ wlog = NothingSeen
    /\ call \in StepCalls
    /\ scl \in (CASE call.op = "initialize"  -> {0, 1}
                  [] call.op = "i2cSendByte" -> {0}
                  [] OTHER                   -> {1})
    /\ sda \in (CASE call.op \in {"initialize", "i2cSendByte"} -> {0, 1}
                  [] OTHER                                     -> {1})
    /\ run = [Entered EXCEPT !.open = (call.op = "i2cSendByte")]

\* the level each link-layer routine leaves a port bit at, by the level it
\* found it at.  The levels i2cSendByte leaves do not depend on the byte it
\* sends (it ends with SDA_high, SCL_high, SCL_low).
LevelLeft ==
    [name \in {"i2cSendBegin", "i2cSendByte", "ssd1306DataPutByte", "i2cSendEnd"} |->
        [line \in {"SCL", "SDA"} |->
            [level \in {0, 1} |->
                ApplyPins(line, level,
                          CASE name = "i2cSendBegin" -> i2cSendBegin
                            [] name = "i2cSendEnd"   -> i2cSendEnd
                            [] OTHER                 -> i2cSendByte(0))]]]

\* the level of a port bit after the calls and port writes of one step:
\* every link-layer routine writes both port bits, so the last call of the
\* step decides; a step without calls makes port writes only
LevelAfterStep(line, level, tr) ==
    IF tr = <<>> THEN level
    ELSE IF IsPin(tr[Len(tr)]) THEN ApplyPins(line, level, tr)
    ELSE LevelLeft[tr[Len(tr)][1]][line][level]

\* the statements executed make the calls tr and leave the operation at next
Step(tr, next) ==
    /\ scl' = LevelAfterStep("SCL", scl, tr)
    /\ sda' = LevelAfterStep("SDA", sda, tr)
    /\ run' = [next EXCEPT !.open = OpenAfter(run.open, tr)]
    /\ UNCHANGED <<charSigned, call, trace, link, wrest, wlog>>

\* setPosition, setContrast, invertScreen, sleep: no loop
StepStraight ==
    /\ run.pc = "entry"
    /\ call.op \in {"setPosition", "setContrast", "invertScreen", "sleep"}
    /\ Step(CASE call.op = "setPosition"  -> setPosition(call.args[1], call.args[2])
              [] call.op = "setContrast"  -> setContrast(call.args[1])
              [] call.op = "invertScreen" -> invertScreen(call.args[1])
              [] call.op = "sleep"        -> sleep(call.args[1]),
            [run EXCEPT !.pc = "done"])
    /\ UNCHANGED fInvertData

StepInvertData ==
    /\ run.pc = "entry"
    /\ call.op = "invertData"
    /\ fInvertData' = call.args[1]
    /\ Step(<<>>, [run EXCEPT !.pc = "done"])

\* initialize up to the first test of ix < sizeof(initCommands)
StepInitialize ==
    /\ run.pc = "entry"
    /\ call.op = "initialize"
    /\ Step(<< SCL_high, SDA_high >> \o ssd1306CmdBegin,
            [run EXCEPT !.pc = "table", !.k = 0])
    /\ UNCHANGED fInvertData

\* one test of the loop of initialize and what follows it
StepTable ==
    /\ run.pc = "table"
    /\ IF run.k < Len(initCommands)
       THEN Step(<< CallByte(initCommands[run.k + 1]) >>,
                 [run EXCEPT !.k = ToUint8(@ + 1)])
       ELSE Step(ssd1306CmdEnd, [run EXCEPT !.pc = "done"])
    /\ UNCHANGED fInvertData

\* text and text2x up to the first test of their loop
StepText ==
    /\ run.pc = "entry"
    /\ call.op \in {"text", "text2x"}
    /\ LET row == call.args[1]
           column == call.args[2]
           last == IF call.op = "text" THEN NUM_ROWS - 1 ELSE NUM_ROWS - 2
       IN  IF row > last
           THEN Step(<<>>, [run EXCEPT !.pc = "done"])
           ELSE Step(setPosition(row, column) \o ssd1306DataBegin,
                     [run EXCEPT !.pc = "chars", !.col = column, !.k = 0, !.half = 0])
    /\ UNCHANGED fInvertData

\* one test of  *s && (col <= NUM_COLUMNS - width)  and what follows it: a
\* glyph, or the end of the pass
StepChars ==
    /\ run.pc = "chars"
    /\ LET row == call.args[1]
           column == call.args[2]
           str == call.args[3]
           g == call.args[4]
           width == IF call.op = "text" THEN 6 ELSE 8
       IN  IF run.k < Len(str) /\ run.col <= NUM_COLUMNS - width
           THEN Step(IF call.op = "text"
                     THEN [ix \in 1..6 |->
                             CallPut(font6x8(textGlyph(str[run.k + 1]) * 6 + (ix - 1), g))]
                     ELSE [ix \in 1..8 |->
                             CallPut(font8x16(text2xGlyph(str[run.k + 1]) * 16
                                              + run.half + (ix - 1), g))],
                     [run EXCEPT !.k = @ + 1, !.col = ToUint8(@ + width)])
           ELSE IF call.op = "text2x" /\ run.half = 0
           THEN Step(ssd1306DataEnd \o setPosition(ToUint8(row + 1), column)
                        \o ssd1306DataBegin,
                     [run EXCEPT !.col = column, !.k = 0, !.half = 8])
           ELSE Step(ssd1306DataEnd, [run EXCEPT !.pc = "done"])
    /\ UNCHANGED fInvertData

\* fillScreen, fillAreaWithByte, fillAreaWithBytes and drawImage up to the
\* first test of their row loop
StepFill ==
    /\ run.pc = "entry"
    /\ call.op \in {"fillScreen", "fillAreaWithByte", "fillAreaWithBytes", "drawImage"}
    /\ Step(<<>>, [run EXCEPT !.pc = "rows",
                              !.row = IF call.op = "fillScreen" THEN 0 ELSE call.args[1]])
    /\ UNCHANGED fInvertData

\* one test of the row loop and what follows it
StepRows ==
    /\ run.pc = "rows"
    /\ LET screen == call.op = "fillScreen"
           startRow == IF screen THEN 0 ELSE call.args[1]
           startColumn == IF screen THEN 0 ELSE call.args[2]
       IN  IF (IF screen THEN run.row < NUM_ROWS
                         ELSE areaRowTest(run.row, startRow, call.args[3]))
           THEN Step(setPosition(run.row, startColumn) \o ssd1306DataBegin,
                     [run EXCEPT !.pc = "cols", !.col = startColumn,
                                 !.k = IF call.op = "drawImage"
                                       THEN (run.row - startRow) * call.args[4]
                                       ELSE 0])
           ELSE Step(<<>>, [run EXCEPT !.pc = "done"])
    /\ UNCHANGED fInvertData

\* one test of the column loop and what follows it
StepCols ==
    /\ run.pc = "cols"
    /\ LET screen == call.op = "fillScreen"
       IN  IF (IF screen THEN run.col < NUM_COLUMNS
                         ELSE areaColTest(run.col, call.args[2], call.args[4]))
           THEN Step(<< CallPut(CASE call.op = "fillScreen" -> call.args[1]
                                  [] call.op = "fillAreaWithByte" -> call.args[5]
                                  [] call.op = "fillAreaWithBytes" -> call.args[5][run.k + 1]
                                  [] call.op = "drawImage" -> imageData(call.args[5], run.k)) >>,
                     [run EXCEPT !.col = ToUint8(@ + 1),
                                 !.k = CASE call.op = "fillAreaWithBytes" ->
                                                IF @ + 1 >= Len(call.args[5]) THEN 0 ELSE @ + 1
                                         [] call.op = "drawImage" -> (@ + 1) % 2^16
                                         [] OTHER -> @])
           ELSE Step(ssd1306DataEnd, [run EXCEPT !.pc = "rows", !.row = ToUint8(@ + 1)])
    /\ UNCHANGED fInvertData

\* i2cSendByte up to the first test of mask
StepSendByte ==
    /\ run.pc = "entry"
    /\ call.op = "i2cSendByte"
    /\ Step(<<>>, [run EXCEPT !.pc = "bits", !.k = 128])
    /\ UNCHANGED fInvertData

\* one test of mask and what follows it: a data bit, or the ninth clock
StepBits ==
    /\ run.pc = "bits"
    /\ IF run.k # 0
       THEN Step(<< (IF BitAnd(call.args[1], run.k) # 0 THEN SDA_high ELSE SDA_low),
                    SCL_high, SCL_low >>,
                 [run EXCEPT !.k = Shr(@, 1)])
       ELSE Step(<< SDA_high, SCL_high, SCL_low >>, [run EXCEPT !.pc = "done"])
    /\ UNCHANGED fInvertData

NextSteps ==
    \/ StepStraight
    \/ StepInvertData
    \/ StepInitialize
    \/ StepTable
    \/ StepText
    \/ StepChars
    \/ StepFill
    \/ StepRows
    \/ StepCols
    \/ StepSendByte
    \/ StepBits

\* the processor executes the next statement of the operation it is in
SpecSteps == InitSteps /\ [][NextSteps]_vars /\ WF_vars(NextSteps)

----------------------------------------------------------------------------
(* Reading the link traffic: frames, and a page-addressing controller.     *)

IsByte(e) == e[1] = "BYTE"

\* l is a concatenation of frames START, address, control, payload*, STOP
WellFormed(l) ==
    /\ l # <<>> => (l[1] = START /\ l[Len(l)] = STOP)
    /\ \A i \in 1..Len(l) :
        /\ l[i] = START =>
              /\ (i = 1 \/ l[i - 1] = STOP)
              /\ i + 2 <= Len(l)
              /\ l[i + 1] = BYTE(SSD1306_ADDR)
              /\ l[i + 2] \in {BYTE(SSD1306_CTL_COMMAND), BYTE(SSD1306_CTL_DATA)}
        /\ IsByte(l[i]) => (i > 1 /\ l[i - 1] # STOP /\ l[i][2] \in UINT8)
        /\ l[i] = STOP =>
              /\ i > 1 /\ IsByte(l[i - 1])
              /\ (i = Len(l) \/ l[i + 1] = START)
        /\ (l[i] = START \/ IsByte(l[i]) \/ l[i] = STOP)

\* the positions of the STARTs and of the STOPs of l, in order
Starts(l) == SelectSeq([i \in 1..Len(l) |-> i], LAMBDA i : l[i] = START)
Stops(l)  == SelectSeq([i \in 1..Len(l) |-> i], LAMBDA i : l[i] = STOP)

\* the frames of a well-formed l: control byte and payload of each
Frames(l) ==
    LET st == Starts(l)
        sp == Stops(l)
    IN  [k \in 1..Len(st) |->
            [ctl     |-> l[st[k] + 2][2],
             payload |-> [j \in 1..(sp[k] - st[k] - 3) |-> l[st[k] + 2 + j][2]]]]

IsCmdFrame(f)  == f.ctl = SSD1306_CTL_COMMAND
IsDataFrame(f) == f.ctl = SSD1306_CTL_DATA

\* the page and column pointers of a controller in page-addressing mode
\* after it decodes one command byte (ssd1306lite.cpp, comments of the
\* command enum): B0..B7 select the page, 10..1F the high nibble of the
\* column, 00..0F its low nibble
DecodeCommand(ptr, b) ==
    IF b >= 176 /\ b <= 183 THEN [ptr EXCEPT !.page = b - 176]
    ELSE IF b >= 16 /\ b <= 31 THEN [ptr EXCEPT !.col = (b - 16) * 16 + (@ % 16)]
    ELSE IF b >= 0 /\ b <= 15 THEN [ptr EXCEPT !.col = (@ \div 16) * 16 + b]
    ELSE ptr

RECURSIVE DecodeCommands(_, _)
DecodeCommands(ptr, payload) ==
    IF payload = <<>> THEN ptr
    ELSE DecodeCommands(DecodeCommand(ptr, Head(payload)), Tail(payload))

\* pointer values a controller may hold before a command frame arrives
SomePointers == { [page |-> 0, col |-> 0], [page |-> 5, col |-> 77], [page |-> 7, col |-> 127] }

\* the frame setPosition is to send for an on-screen row and column
PositionFrame(row, column) ==
    << START, BYTE(SSD1306_ADDR), BYTE(SSD1306_CTL_COMMAND),
       BYTE(176 + row), BYTE(16 + (column \div 16)), BYTE(column % 16), STOP >>

InRange(row, column) == row < 8 /\ column < 128

----------------------------------------------------------------------------
(* Claims *)

\* C1: after any sequence of public operations the traffic on the link is a
\* concatenation of well-formed frames: START, the address byte 0x78, one
\* control byte 0x00 or 0x40, zero or more payload bytes, STOP; no START
\* inside an open frame and no byte outside a frame.
Thm_C1_FramesWellFormed == WellFormed(link)

\* a drawing operation has put a command frame and a data frame with payload
\* on the link
Wit_C1_FramesWellFormed ==
    /\ call.op = "text2x"
    /\ Len(Starts(link)) = 4
    /\ \E k \in 1..4 : IsDataFrame(Frames(link)[k]) /\ Len(Frames(link)[k].payload) = 16

\* the value of eight bits read most-significant first
RECURSIVE MsbFirst(_)
MsbFirst(bits) ==
    IF bits = <<>> THEN 0
    ELSE Head(bits) * 2^(Len(bits) - 1) + MsbFirst(Tail(bits))

\* C2: for every byte value, i2cSendByte produces exactly 9 SCL pulses; the
\* SDA levels at the first 8 rising edges, read MSB first, are the byte; SDA
\* only changes while SCL is low; the 9th pulse is issued with SDA high and
\* SCL is left low.
Thm_C2_SendByte ==
    /\ ~wlog.moved
    /\ wlog.fall <= wlog.rise /\ wlog.rise <= wlog.fall + 1
    /\ (call.op = "i2cSendByte" /\ wrest = <<>>) =>
          /\ wlog.rise = 9
          /\ wlog.fall = 9
          /\ Len(wlog.bits) = 9
          /\ MsbFirst(SubSeq(wlog.bits, 1, 8)) = call.args[1]
          /\ wlog.bits[9] = 1
          /\ scl = 0

\* i2cSendByte(0xA5) has returned
Wit_C2_SendByte ==
    /\ call.op = "i2cSendByte" /\ call.args = <<165>>
    /\ wrest = <<>>
    /\ wlog.rise = 9

Thm_C4_SetPositionInRange ==
    (call.op = "setPosition" /\ InRange(call.args[1], call.args[2])) =>
        /\ link = PositionFrame(call.args[1], call.args[2])
        /\ Len(Frames(link)) = 1
        /\ IsCmdFrame(Frames(link)[1])
        /\ Len(Frames(link)[1].payload) = 3
        /\ \A ptr \in SomePointers :
              DecodeCommands(ptr, Frames(link)[1].payload)
                  = [page |-> call.args[1], col |-> call.args[2]]

\* setPosition(7, 127) has run
Wit_C4_SetPositionInRange ==
    /\ call.op = "setPosition"
    /\ call.args = <<7, 127>>
    /\ Len(link) = 7

----------------------------------------------------------------------------
(* Reading the link traffic, continued *)

\* the glyph indices computed by the operation, in order
GlyphsNoted == LET n == SelectSeq(trace, LAMBDA item : item[1] = "glyph")
               IN  [k \in 1..Len(n) |-> n[k][2]]

\* the calls of the operation, aligned with link
Calls == SelectSeq(trace, IsCall)

\* the number of payload bytes in the data frames fr[k..]
RECURSIVE DataBytesFrom(_, _)
DataBytesFrom(fr, k) ==
    IF k > Len(fr) THEN 0
    ELSE (IF IsDataFrame(fr[k]) THEN Len(fr[k].payload) ELSE 0) + DataBytesFrom(fr, k + 1)

DataBytes(l) == DataBytesFrom(Frames(l), 1)

\* the number of command frames of l
CmdFrames(l) == Len(SelectSeq(Frames(l), IsCmdFrame))

\* a byte as the controller receives it when sent as pixel data
Encoded(b) == IF fInvertData THEN 255 - b ELSE b

\* a data frame carrying the given bytes
DataFrame(bytes) ==
    << START, BYTE(SSD1306_ADDR), BYTE(SSD1306_CTL_DATA) >>
    \o [k \in 1..Len(bytes) |-> BYTE(bytes[k])]
    \o << STOP >>

\* the display RAM writes a page-addressing controller performs on receiving
\* the frames fr[k..] with its pointers at ptr: each data byte is stored at
\* the pointers and the column pointer moves on by one (within the page)
RECURSIVE ControllerWrites(_, _, _)
ControllerWrites(fr, k, ptr) ==
    IF k > Len(fr) THEN {}
    ELSE IF IsCmdFrame(fr[k])
    THEN ControllerWrites(fr, k + 1, DecodeCommands(ptr, fr[k].payload))
    ELSE { <<ptr.page, (ptr.col + (j - 1)) % 128, fr[k].payload[j]>> :
               j \in 1..Len(fr[k].payload) }
         \cup ControllerWrites(fr, k + 1,
                  [ptr EXCEPT !.col = (@ + Len(fr[k].payload)) % 128])

RamWrites(l) == ControllerWrites(Frames(l), 1, [page |-> 0, col |-> 0])

\* every data frame of l that carries payload directly follows a command
\* frame of three bytes selecting page, column high nibble, column low nibble
Positioned(l) ==
    LET fr == Frames(l)
    IN  \A k \in 1..Len(fr) :
            (IsDataFrame(fr[k]) /\ fr[k].payload # <<>>) =>
                /\ k > 1
                /\ IsCmdFrame(fr[k - 1])
                /\ Len(fr[k - 1].payload) = 3
                /\ fr[k - 1].payload[1] \in 176..183
                /\ fr[k - 1].payload[2] \in 16..31
                /\ fr[k - 1].payload[3] \in 0..15

----------------------------------------------------------------------------
(* Claims, continued *)

\* the number of leading characters of str that fit from column on:
\* character k (from 0) fits iff column + 6*k <= 122
FitCount(column, str) == Cardinality({k \in 0..(Len(str) - 1) : column + 6 * k <= 122})

\* C5: text never writes a glyph once the running column exceeds 128 - 6 =
\* 122, and the traffic of text(row, column, s) is that of
\* text(row, column, p) for p the longest prefix of s whose glyphs all fit.
Thm_C5_TextClips ==
    (call.op = "text") =>
        LET row == call.args[1]
            column == call.args[2]
            str == call.args[3]
            g == call.args[4]
        IN  /\ \A j \in 1..Len(GlyphsNoted) : column + 6 * (j - 1) <= 122
            /\ DataBytes(link) = 6 * Len(GlyphsNoted)
            /\ link = OnLink(text(row, column, SubSeq(str, 1, FitCount(column, str)), g))

\* text(2, 111, s) with three characters drew the two that fit
Wit_C5_TextClips ==
    /\ call.op = "text"
    /\ call.args[1] = 2 /\ call.args[2] = 111 /\ Len(call.args[3]) = 3
    /\ DataBytes(link) = 12

\* the six bytes of glyph c in the 6-byte-per-glyph font
Glyph6(c) == [k \in 1..6 |-> font6x8Data(c * 6 + (k - 1))]

IsTextHi == call.op = "text" /\ SubSeq(call.args, 1, 3) = <<2, 0, <<72, 105>>>>

\* C6 as stated: text(2, 0, "Hi") produces one position command for row 2,
\* column 0, then one data frame of 12 bytes: the glyph bytes at index 40
\* followed by the glyph bytes at index 41.
Orig_C6_TextHi ==
    IsTextHi => link = PositionFrame(2, 0) \o DataFrame(Glyph6(40) \o Glyph6(41))

\* C6 amended: text(2, 0, "Hi") produces one position command for row 2,
\* column 0, then one data frame of 12 bytes: the glyph bytes at index 40
\* ('H' - 32) followed by the glyph bytes at index 73 ('i' - 32), each
\* complemented while data-invert is set.
Thm_C6_TextHi ==
    IsTextHi =>
        link = PositionFrame(2, 0)
               \o DataFrame([k \in 1..12 |-> Encoded((Glyph6(40) \o Glyph6(73))[k])])

\* text(2, 0, "Hi") has run
Wit_C6_TextHi == IsTextHi /\ DataBytes(link) = 12

\* the glyph index the specification gives for a character: character - 32
\* inside the printable range ' ' .. last, 0 outside it
SpecGlyph(ch, last) == IF ch >= 32 /\ ch <= last THEN ch - 32 ELSE 0

\* C7 as stated: for every character value the glyph index computed by text
\* and text2x is character - 32 inside the printable range (' '..'{' for
\* text, ' '..'}' for text2x) and 0 otherwise, so it never addresses a glyph
\* beyond that of the last printable character.
Claim_C7_GlyphIndex ==
    (call.op \in {"text", "text2x"} /\ GlyphsNoted # <<>>) =>
        LET str == call.args[3]
            last == IF call.op = "text" THEN 123 ELSE 125
            drawn == IF call.op = "text" THEN Len(GlyphsNoted) ELSE Len(GlyphsNoted) \div 2
        IN  \A k \in 1..Len(GlyphsNoted) :
                /\ GlyphsNoted[k] = SpecGlyph(str[((k - 1) % drawn) + 1], last)
                /\ GlyphsNoted[k] <= last - 32

\* C8: while data-invert is set every payload byte of a data frame is the
\* complement 255 - b of the byte b the drawing operation supplied; while it
\* is clear the byte is sent as supplied; address bytes, control bytes and
\* the payload of command frames are sent as supplied in either mode.
Thm_C8_InvertData ==
    LET st == Starts(link)
        sp == Stops(link)
    IN  /\ Len(Calls) = Len(link)
        /\ \A k \in 1..Len(st) :
            /\ Calls[st[k] + 1] = CallByte(SSD1306_ADDR)
            /\ link[st[k] + 1] = BYTE(SSD1306_ADDR)
            /\ Calls[st[k] + 2][1] = "i2cSendByte"
            /\ link[st[k] + 2] = BYTE(Calls[st[k] + 2][2])
            /\ \A j \in (st[k] + 3)..(sp[k] - 1) :
                 IF link[st[k] + 2] = BYTE(SSD1306_CTL_DATA)
                 THEN /\ Calls[j][1] = "ssd1306DataPutByte"
                      /\ link[j] = BYTE(IF fInvertData THEN 255 - Calls[j][2] ELSE Calls[j][2])
                 ELSE /\ Calls[j][1] = "i2cSendByte"
                      /\ link[j] = BYTE(Calls[j][2])

\* with data-invert set, fillAreaWithByte(.., 0xA5) sent 0x5A as pixel data
\* behind an unmodified position command
Wit_C8_InvertData ==
    /\ fInvertData
    /\ call.op = "fillAreaWithByte"
    /\ call.args = <<6, 120, 1, 1, 165>>
    /\ link = PositionFrame(6, 120) \o DataFrame(<<90>>)

\* C9: the data-invert flag is false at construction; invertData(b) sets it
\* to b and puts nothing on the link; every other public operation leaves
\* it unchanged.
Thm_C9_FlagFrame ==
    /\ fInvertData = FALSE
    /\ [][ IF call'.op = "invertData"
           THEN /\ fInvertData' = call'.args[1]
                /\ trace' = <<>>
                /\ link' = <<>>
                /\ scl' = scl
                /\ sda' = sda
           ELSE fInvertData' = fInvertData ]_vars

\* initialize has run after invertData(true) and the flag is still set
Wit_C9_FlagFrame ==
    /\ call.op = "initialize"
    /\ fInvertData
    /\ link # <<>>

\* the rows and columns of the rectangle that lie on the screen
OnScreenRows(startRow, rows) == {r \in 0..7 : startRow <= r /\ r < startRow + rows}
OnScreenCols(startColumn, columns) == {c \in 0..127 : startColumn <= c /\ c < startColumn + columns}

RECURSIVE Placed(_, _, _)
Placed(fr, k, ptr) ==
    IF k > Len(fr) THEN <<>>
    ELSE IF IsCmdFrame(fr[k])
    THEN Placed(fr, k + 1, DecodeCommands(ptr, fr[k].payload))
    ELSE << [page |-> ptr.page, col |-> ptr.col, payload |-> fr[k].payload] >>
         \o Placed(fr, k + 1, [ptr EXCEPT !.col = (@ + Len(fr[k].payload)) % 128])

PlacedFrames(l) == Placed(Frames(l), 1, [page |-> 0, col |-> 0])

\* the content of display RAM position (r, c) after a controller has stored
\* the placed data frames pf, in order, into a RAM that held prior there:
\* the last byte stored at the position wins
RamCell(prior, pf, r, c) ==
    LET hits == {k \in 1..Len(pf) :
                    pf[k].page = r /\ ((c - pf[k].col) % 128) < Len(pf[k].payload)}
    IN  IF hits = {} THEN prior
        ELSE LET k == CHOOSE h \in hits : \A o \in hits : o <= h
                 j == (c - pf[k].col) % 128
             IN  pf[k].payload[j + 128 * ((Len(pf[k].payload) - 1 - j) \div 128) + 1]

\* what a RAM position may hold before an operation runs
PriorBytes == {0, 90, 255}

\* C11: with the display RAM as 8 pages of 128 columns behind a
\* page-addressing controller, after fillScreen(b) every one of the 1024
\* positions holds b (its complement while data-invert is set) whatever the
\* position held before; so after fillScreen(0x00) a fillScreen(0xFF) leaves
\* 0xFF at every position.
Thm_C11_FillScreenRam ==
    (call.op = "fillScreen") =>
        LET pf == PlacedFrames(link)
        IN  /\ Positioned(link)
            /\ \A prior \in PriorBytes, r \in 0..7, c \in 0..127 :
                  RamCell(prior, pf, r, c) = Encoded(call.args[1])

\* fillScreen(0xFF) has run on a RAM whose positions may hold 0x00
Wit_C11_FillScreenRam ==
    /\ call.op = "fillScreen" /\ call.args = <<255>>
    /\ 0 \in PriorBytes
    /\ DataBytes(link) = 1024
    /\ \A r \in 0..7, c \in 0..127 : RamCell(0, PlacedFrames(link), r, c) = Encoded(255)

\* C12: fillAreaWithBytes with a pattern of length 1 puts on the link,
\* byte for byte, the traffic of fillAreaWithByte with that byte, for the
\* same startRow, startColumn, rows and columns.
Thm_C12_PatternOfOne ==
    (call.op = "fillAreaWithBytes" /\ Len(call.args[5]) = 1) =>
        link = OnLink(fillAreaWithByte(call.args[1], call.args[2], call.args[3],
                                       call.args[4], call.args[5][1]))

\* fillAreaWithBytes(6, 120, 3, 10, {0xFF}, 1) has run: two rows of eight
\* bytes, clipped at both edges
Wit_C12_PatternOfOne ==
    /\ call.op = "fillAreaWithBytes"
    /\ call.args = <<6, 120, 3, 10, <<255>>>>
    /\ DataBytes(link) = 16
    /\ CmdFrames(link) = 2

\* C13: fillAreaWithByte(0, 0, 8, 128, b) is the same as fillScreen(b): both
\* put the same frames and bytes on the link, namely 8 position commands
\* (rows 0..7, column 0) each followed by a data frame of 128 bytes.
Thm_C13_FullAreaIsFillScreen ==
    LET rowOf(r, b) == PositionFrame(r, 0) \o DataFrame([j \in 1..128 |-> Encoded(b)])
        n == Len(rowOf(0, 0))
        rowsOf(b) == [k \in 1..(8 * n) |-> rowOf((k - 1) \div n, b)[((k - 1) % n) + 1]]
    IN  /\ (call.op = "fillAreaWithByte" /\ SubSeq(call.args, 1, 4) = <<0, 0, 8, 128>>) =>
              /\ link = OnLink(fillScreen(call.args[5]))
              /\ link = rowsOf(call.args[5])
        /\ (call.op = "fillScreen") =>
              /\ link = OnLink(fillAreaWithByte(0, 0, 8, 128, call.args[1]))
              /\ link = rowsOf(call.args[1])

\* fillAreaWithByte(0, 0, 8, 128, 0xA5) has run
Wit_C13_FullAreaIsFillScreen ==
    /\ call.op = "fillAreaWithByte"
    /\ call.args = <<0, 0, 8, 128, 165>>
    /\ DataBytes(link) = 1024
    /\ CmdFrames(link) = 8

\* C14: fillAreaWithByte writes the byte to exactly the display positions of
\* the intersection of [startRow, startRow + rows) x [startColumn,
\* startColumn + columns) with the screen, the sums taken without wrapping
\* at 256, each position once and no other position; when the rectangle
\* lies entirely off the screen (startRow >= 8 or startColumn >= 128) or
\* rows or columns is 0, nothing is written: no data frame has a payload
\* byte.
Thm_C14_FillAreaWithByte ==
    (call.op = "fillAreaWithByte") =>
        LET startRow == call.args[1]
            startColumn == call.args[2]
            rows == call.args[3]
            columns == call.args[4]
            b == call.args[5]
        IN  /\ Positioned(link)
            /\ RamWrites(link) =
                  { <<r, c, Encoded(b)>> : r \in OnScreenRows(startRow, rows),
                                           c \in OnScreenCols(startColumn, columns) }
            /\ DataBytes(link) = Cardinality(OnScreenRows(startRow, rows))
                                   * Cardinality(OnScreenCols(startColumn, columns))
            /\ (startRow >= 8 \/ startColumn >= 128 \/ rows = 0 \/ columns = 0) =>
                  /\ DataBytes(link) = 0
                  /\ RamWrites(link) = {}

\* fillAreaWithByte(6, 120, 255, 255, 0xA5) has run: the rectangle reaches
\* past 256 in both directions and is clipped to rows 6..7, columns 120..127
Wit_C14_FillAreaWithByte ==
    /\ call.op = "fillAreaWithByte"
    /\ call.args = <<6, 120, 255, 255, 165>>
    /\ DataBytes(link) = 16
    /\ CmdFrames(link) = 2

\* C15: fillAreaWithBytes with a pattern of length L >= 1 writes, at every
\* position (r, c) of the intersection of the rectangle with the screen,
\* pattern[(c - startColumn) mod L] and writes nowhere else: the pattern
\* index starts again at 0 on each row and never reaches L.
Thm_C15_PatternIndex ==
    (call.op = "fillAreaWithBytes" /\ Len(call.args[5]) >= 1) =>
        LET startRow == call.args[1]
            startColumn == call.args[2]
            rows == call.args[3]
            columns == call.args[4]
            pattern == call.args[5]
            L == Len(pattern)
        IN  /\ Positioned(link)
            /\ RamWrites(link) =
                  { <<r, c, Encoded(pattern[((c - startColumn) % L) + 1])>> :
                      r \in OnScreenRows(startRow, rows),
                      c \in OnScreenCols(startColumn, columns) }
            /\ DataBytes(link) = Cardinality(OnScreenRows(startRow, rows))
                                   * Cardinality(OnScreenCols(startColumn, columns))

\* fillAreaWithBytes(6, 120, 3, 10, {1, 17, 33}, 3) has run: rows 6 and 7
\* each start with pattern[0] and hold eight bytes
Wit_C15_PatternIndex ==
    /\ call.op = "fillAreaWithBytes"
    /\ call.args = <<6, 120, 3, 10, <<1, 17, 33>>>>
    /\ DataBytes(link) = 16
    /\ <<7, 120, Encoded(1)>> \in RamWrites(link)
    /\ <<6, 127, Encoded(17)>> \in RamWrites(link)

\* the number of characters of str that text2x draws from column on:
\* character k (from 0) is drawn iff column + 8 * k <= 120
FitCount2x(column, str) == Cardinality({k \in 0..(Len(str) - 1) : column + 8 * k <= 120})

\* the bytes half..half+7 of the 16-byte glyphs the driver selects for the
\* first n characters of str, as pixel data
HalfGlyphs(str, n, half, g) ==
    [i \in 1..(8 * n) |->
        Encoded(font8x16(text2xGlyph(str[((i - 1) \div 8) + 1]) * 16 + half + ((i - 1) % 8), g))]

\* C16 as stated: text2x transmits nothing when row > 6; otherwise the link
\* carries a position command for (row, column), a data frame with bytes
\* 0..7 of the glyph of each fitting character, a position command for
\* (row + 1, column) and a data frame with bytes 8..15 of the glyphs of the
\* same characters, character k fitting iff column + 8 * k <= 120.
Orig_C16_Text2xPasses ==
    (call.op = "text2x") =>
        LET row == call.args[1]
            column == call.args[2]
            str == call.args[3]
            n == FitCount2x(column, str)
        IN  IF row > 6 THEN link = <<>>
            ELSE link = PositionFrame(row, column)
                        \o DataFrame(HalfGlyphs(str, n, 0, call.args[4]))
                        \o PositionFrame(row + 1, column)
                        \o DataFrame(HalfGlyphs(str, n, 8, call.args[4]))

\* what setPosition puts on the link
PositionTraffic(row, column) ==
    IF InRange(row, column) THEN PositionFrame(row, column) ELSE <<>>

\* C16, amended: text2x transmits nothing when row > 6; otherwise it makes
\* two passes: for column < 128 a position command for (row, column), then
\* a data frame with bytes 0..7 of the glyph of each fitting character;
\* then for column < 128 a position command for (row + 1, column), then a
\* data frame with bytes 8..15 of the glyphs of the same characters.
\* Character k fits iff column + 8 * k <= 120; for column >= 128 no position
\* command is transmitted and both data frames are empty.
Thm_C16_Text2xPasses ==
    (call.op = "text2x") =>
        LET row == call.args[1]
            column == call.args[2]
            str == call.args[3]
            n == FitCount2x(column, str)
        IN  IF row > 6 THEN link = <<>> /\ trace = <<>>
            ELSE /\ link = PositionTraffic(row, column)
                           \o DataFrame(HalfGlyphs(str, n, 0, call.args[4]))
                           \o PositionTraffic(row + 1, column)
                           \o DataFrame(HalfGlyphs(str, n, 8, call.args[4]))
                 /\ column >= 128 => (CmdFrames(link) = 0 /\ DataBytes(link) = 0)
                 /\ GlyphsNoted = [k \in 1..(2 * n) |-> text2xGlyph(str[((k - 1) % n) + 1])]

\* text2x(6, 111, "HiH") has run: two characters fit, drawn on rows 6 and 7
Wit_C16_Text2xPasses ==
    /\ call.op = "text2x"
    /\ SubSeq(call.args, 1, 3) = <<6, 111, <<72, 105, 72>>>>
    /\ CmdFrames(link) = 2
    /\ DataBytes(link) = 32
    /\ Len(Frames(link)) = 4

\* C17: initialize first sets both lines high and then transmits the whole
\* command table as exactly one command frame: one START, the address, the
\* control byte 0x00, all table bytes in table order, one STOP, the last
\* payload byte being display-on (0xAF); it opens no data frame, so nothing
\* is written to display RAM; every call of it emits this same frame.
Thm_C17_InitializeFrame ==
    (call.op = "initialize") =>
        /\ SubSeq(trace, 1, 2) = << <<"SCL", 1>>, <<"SDA", 1>> >>
        /\ \A k \in 3..Len(trace) : IsCall(trace[k])
        /\ link = << START, BYTE(120), BYTE(0) >>
                  \o [k \in 1..Len(initCommands) |-> BYTE(initCommands[k])]
                  \o << STOP >>
        /\ Len(Frames(link)) = 1
        /\ IsCmdFrame(Frames(link)[1])
        /\ Len(Frames(link)[1].payload) = 25
        /\ Frames(link)[1].payload[1] = 174
        /\ Frames(link)[1].payload[25] = 175
        /\ RamWrites(link) = {}
        /\ scl = 1 /\ sda = 1

\* initialize has run in a driver whose data-invert flag had been set by an
\* earlier operation, and has sent its one frame of 25 commands
Wit_C17_InitializeFrame ==
    /\ call.op = "initialize"
    /\ fInvertData
    /\ Len(link) = 29
    /\ link[Len(link) - 1] = BYTE(175)

\* C18: every public operation runs to completion for every combination of
\* uint8 arguments and every string: its loops over the uint8 row, column
\* and table counters, and the bit-mask loop of the link layer, all come to
\* an end; when a public operation called with both lines idle (initialize:
\* with the lines at any level) returns, no frame is open and SCL and SDA
\* are both high.
Thm_C18_RunsToCompletion ==
    /\ <>(run.pc = "done")
    /\ [](run.row \in UINT8 /\ run.col \in UINT8)
    /\ []((run.pc = "done" /\ call.op # "i2cSendByte") =>
              (~run.open /\ scl = 1 /\ sda = 1))

\* fillAreaWithByte(6, 120, 255, 255, 0xA5), whose rectangle reaches past
\* 256 both ways, has returned
Wit_C18_RunsToCompletion ==
    /\ call.op = "fillAreaWithByte"
    /\ call.args = <<6, 120, 255, 255, 165>>
    /\ run.pc = "done"
    /\ ~run.open
    /\ run.row = 8

\* the positions, in order, of the frames of fr that are data frames with
\* at least one payload byte
PixelFrames(fr) ==
    SelectSeq([k \in 1..Len(fr) |-> k],
              LAMBDA k : IsDataFrame(fr[k]) /\ fr[k].payload # <<>>)

\* the display position <<row, column>> at which the operation last called
\* means the first byte of its i-th write run to land: text writes one run
\* at (row, column), text2x a second one at (row + 1, column), the fills and
\* drawImage one run per row of the screen they cover, from the start column
RunTarget(i) ==
    CASE call.op = "text"       -> <<call.args[1], call.args[2]>>
      [] call.op = "fillScreen" -> <<i - 1, 0>>
      [] OTHER                  -> <<call.args[1] + (i - 1), call.args[2]>>

\* C19: in every sequence of public operations, every data frame with at
\* least one payload byte directly follows a position command frame (the
\* three bytes of setPosition) that selects exactly the row and column where
\* the first payload byte is meant to land, so that the controller stores it
\* there whatever cursor earlier traffic has left.
Thm_C19_PositionBeforeData ==
    LET fr == Frames(link)
        px == PixelFrames(fr)
    IN  \A i \in 1..Len(px) :
            LET k == px[i]
                t == RunTarget(i)
            IN  /\ InRange(t[1], t[2])
                /\ k > 1
                /\ fr[k - 1] = [ctl |-> SSD1306_CTL_COMMAND,
                                payload |-> << 176 + t[1], 16 + (t[2] \div 16), t[2] % 16 >>]
                /\ \A ptr \in SomePointers :
                      DecodeCommands(ptr, fr[k - 1].payload) = [page |-> t[1], col |-> t[2]]

\* text2x(2, 105, "Hi") has run: two write runs of 16 bytes, one on row 2
\* and one on row 3
Wit_C19_PositionBeforeData ==
    /\ call.op = "text2x"
    /\ SubSeq(call.args, 1, 3) = <<2, 105, <<72, 105>>>>
    /\ Len(PixelFrames(Frames(link))) = 2
    /\ RunTarget(2) = <<3, 105>>
    /\ Frames(link)[3].payload = <<179, 22, 9>>

\* C20: for every data frame of any drawing operation, the column selected
\* by the position command before it plus the number of its payload bytes
\* is at most 128, so a write run never passes column 127 and never wraps to
\* the start of the page; and no position command (a command frame of the
\* three bytes of setPosition) selects a row above 7 or a column above 127.
Thm_C20_RunsStayOnPage ==
    LET fr == Frames(link)
    IN  /\ \A k \in 1..Len(fr) :
              (IsDataFrame(fr[k]) /\ fr[k].payload # <<>>) =>
                  /\ k > 1 /\ IsCmdFrame(fr[k - 1]) /\ Len(fr[k - 1].payload) = 3
                  /\ \A ptr \in SomePointers :
                        LET at == DecodeCommands(ptr, fr[k - 1].payload)
                        IN  /\ at.col + Len(fr[k].payload) <= 128
                            /\ at.page <= 7
        /\ \A k \in 1..Len(fr) :
              (IsCmdFrame(fr[k]) /\ Len(fr[k].payload) = 3) =>
                  /\ fr[k].payload[1] \in 176..183
                  /\ fr[k].payload[2] \in 16..23
                  /\ fr[k].payload[3] \in 0..15
        /\ \A w \in RamWrites(link) : w[1] \in 0..7 /\ w[2] \in 0..127
        /\ Cardinality(RamWrites(link)) = DataBytes(link)

\* text2x(0, 120, "H") has run: its two runs of eight bytes end exactly at
\* the edge of the page
Wit_C20_RunsStayOnPage ==
    /\ call.op = "text2x"
    /\ SubSeq(call.args, 1, 3) = <<0, 120, <<72>>>>
    /\ DataBytes(link) = 16
    /\ <<1, 127, Encoded(font8x16Data(40 * 16 + 15))>> \in RamWrites(link)

\* C21: between the START and the STOP of every frame SDA changes level
\* only while SCL is low, whatever bytes are sent: the receiver sees one
\* START, made by the SDA_low of i2cSendBegin with both lines high, no
\* further START or STOP while the bytes are clocked (nine clocks each), and
\* one STOP, made by the last write of i2cSendEnd, which leaves both lines
\* high.  (A rise of SDA while SCL is high can only precede the START, when
\* the lines were not idle at entry.)
Thm_C21_QuietInsideFrame ==
    /\ wlog.early <= 1
    /\ call.op = "initialize" => (wlog.starts = 0 /\ wlog.stops = 0)
    /\ call.op = "i2cSendBegin" =>
          /\ wlog.starts = (IF Len(wrest) <= 1 THEN 1 ELSE 0)
          /\ wlog.stops = 0
          /\ wlog.clocks = 0
    /\ call.op = "i2cSendByte" =>
          /\ wlog.starts = 1
          /\ wlog.stops = 0
          /\ wrest = <<>> =>
                /\ wlog.clocks =
                      9 * ((CASE run.pc = "control" -> 1
                              [] run.pc = "payload" -> 2) + run.k)
                /\ scl = 0
    /\ call.op = "i2cSendEnd" =>
          /\ wlog.starts = 1
          /\ wlog.stops = (IF wrest = <<>> THEN 1 ELSE 0)
          /\ wlog.clocks = 9 * (2 + run.k) + (IF Len(wrest) <= 1 THEN 1 ELSE 0)
    /\ (wrest = <<>> /\ call.op \in {"initialize", "i2cSendEnd"}) =>
          (scl = 1 /\ sda = 1)

\* a frame of address, control byte and two payload bytes has been sent
Wit_C21_QuietInsideFrame ==
    /\ call.op = "i2cSendEnd"
    /\ wrest = <<>>
    /\ run.k = 2
    /\ wlog.starts = 1 /\ wlog.stops = 1

\* the opcodes after which the controller consumes one argument byte
OneArgOpcodes == {32, 129, 141, 168, 211, 213, 217, 218, 219}

\* the commands a controller parses out of the payload of a command frame:
\* after a one-argument opcode the next byte is its argument, every other
\* byte is an opcode of its own; a command is complete unless the frame ends
\* where its argument is due
RECURSIVE ParseCommands(_)
ParseCommands(p) ==
    IF p = <<>> THEN <<>>
    ELSE IF Head(p) \notin OneArgOpcodes
         THEN << [op |-> Head(p), args |-> <<>>, complete |-> TRUE] >>
              \o ParseCommands(Tail(p))
    ELSE IF Len(p) = 1
         THEN << [op |-> Head(p), args |-> <<>>, complete |-> FALSE] >>
    ELSE << [op |-> p[1], args |-> << p[2] >>, complete |-> TRUE] >>
         \o ParseCommands(SubSeq(p, 3, Len(p)))

Command0(op) == [op |-> op, args |-> <<>>, complete |-> TRUE]
Command1(op, arg) == [op |-> op, args |-> << arg >>, complete |-> TRUE]

\* the commands of the initialize table, one per row of the table
InitializeCommands ==
    << Command0(CMD_DISPLAY_OFF),
       Command1(CMD_MULTIPLEX_RATIO, 63),
       Command1(CMD_DISPLAY_OFFSET, 0),
       Command0(CMD_SET_START_LINE),
       Command0(CMD_HORIZONTAL_REMAP),
       Command0(CMD_VERTICAL_REMAP),
       Command1(CMD_ADDRESS_MODE, 2),
       Command1(CMD_SET_CONTRAST, 127),
       Command0(CMD_INVERT_OFF),
       Command0(CMD_RAM_ENABLE),
       Command1(CMD_DIVIDE_AND_FREQ, 240),
       Command1(CMD_PRE_CHARGE_PERIOD, 34),
       Command1(CMD_COM_PIN_CONFIG, 18),
       Command1(CMD_VCOMH_LEVEL, 32),
       Command1(CMD_CHARGE_PUMP, 20),
       Command0(CMD_DISPLAY_ON) >>

\* the command frames of the traffic l, in order
CommandFramesOf(l) == SelectSeq(Frames(l), IsCmdFrame)

\* C22: every command frame the driver emits holds complete commands only:
\* a controller that consumes one argument byte after each one-argument
\* opcode and none after the others is never waiting for an argument at the
\* end of a frame and takes no argument byte for an opcode.  The initialize
\* frame parses into the 16 commands of the table, a position frame into
\* three commands without argument (page, column high nibble, column low
\* nibble), setContrast(level) sends one frame with the payload 0x81, level,
\* invertScreen one frame with the single byte 0xA7 / 0xA6 and sleep one
\* frame with the single byte 0xAE / 0xAF.
Thm_C22_CompleteCommands ==
    LET fs == Frames(link)
        cs == CommandFramesOf(link)
    IN  /\ \A k \in 1..Len(cs) :
              LET cmds == ParseCommands(cs[k].payload)
              IN  /\ cmds # <<>>
                  /\ \A j \in 1..Len(cmds) : cmds[j].complete
                  /\ call.op \notin {"initialize", "setContrast",
                                     "invertScreen", "sleep"} =>
                        /\ Len(cmds) = 3
                        /\ cmds[1].op \in 176..183 /\ cmds[1].args = <<>>
                        /\ cmds[2].op \in 16..23 /\ cmds[2].args = <<>>
                        /\ cmds[3].op \in 0..15 /\ cmds[3].args = <<>>
        /\ call.op = "initialize" =>
              /\ Len(fs) = 1 /\ Len(cs) = 1
              /\ ParseCommands(cs[1].payload) = InitializeCommands
        /\ call.op = "setContrast" =>
              /\ Len(fs) = 1 /\ Len(cs) = 1
              /\ cs[1].payload = << 129, call.args[1] >>
              /\ ParseCommands(cs[1].payload) = << Command1(129, call.args[1]) >>
        /\ call.op = "invertScreen" =>
              /\ Len(fs) = 1 /\ Len(cs) = 1
              /\ cs[1].payload = << IF call.args[1] THEN 167 ELSE 166 >>
              /\ ParseCommands(cs[1].payload) = << Command0(cs[1].payload[1]) >>
        /\ call.op = "sleep" =>
              /\ Len(fs) = 1 /\ Len(cs) = 1
              /\ cs[1].payload = << IF call.args[1] THEN 174 ELSE 175 >>
              /\ ParseCommands(cs[1].payload) = << Command0(cs[1].payload[1]) >>

\* setContrast(0x20): the level has the value of a one-argument opcode and
\* is taken as the argument of 0x81
Wit_C22_CompleteCommands ==
    /\ call.op = "setContrast" /\ call.args = << 32 >>
    /\ Len(Frames(link)) = 1
    /\ ParseCommands(Frames(link)[1].payload) = << Command1(129, 32) >>

====
